---- MODULE Spec2Model ----
(***************************************************************************)
(* Token codec (auth.py), bearer extraction and route guard, and the       *)
(* request-scoped database session (database.py, main.py) of the blog      *)
(* backend.                                                                *)
(*                                                                         *)
(* Time is counted in ticks; TicksPerSec ticks make one second, so that    *)
(* datetime.now(UTC) has sub-second resolution while the NumericDate       *)
(* claims of a token (exp, nbf) are whole seconds, as jwt.encode writes    *)
(* them.                                                                   *)
(***************************************************************************)
EXTENDS Integers, FiniteSets, Sequences, TLC

\* ---------------------------------------------------------------- bounds
TicksPerSec == 2
MaxNow == 6
MaxDelta == 2
MaxReq == 2

\* ------------------------------------------------------------- constants
\* config.py: access_token_expire_minutes: int = 30
access_token_expire_minutes == 30

\* ------------------------------------------------------------ value sets
Keys == {"my-secret-key-2026", "other-key"}
Algs == {"HS256", "HS384"}

\* A claim that is not in the mapping (time claims are whole seconds >= 0).
Absent == -1

\* Python None, the value of a JSON null, and a key missing from a dict.
None == [type |-> "none", val |-> ""]
MissingSub == [type |-> "absent", val |-> ""]
Str(s) == [type |-> "str", val |-> s]
IntVal(s) == [type |-> "int", val |-> s]

SubValues == {MissingSub, None, Str(""), Str("42"), IntVal("42")}

\* timedelta | None.  timedelta(0) is a given value whose truth value is False.
NoDelta == [given |-> FALSE, ticks |-> 0]
Delta(d) == [given |-> TRUE, ticks |-> d]
Deltas == {NoDelta} \cup {Delta(d) : d \in (0 - MaxDelta)..MaxDelta}

\* The claims mappings a caller passes to create_access_token.
DataSet == [sub : SubValues, exp : {Absent, 0}, nbf : {Absent, 2}]

VARIABLES
    settings,     \* config.py settings: secret_key, algorithm
    verify_sub,   \* whether the installed jwt library type-checks `sub`
    now,          \* datetime.now(UTC), in ticks
    tok,          \* the token string under observation
    issued,       \* how tok was issued (data, expires_delta, time), if it was
    result,       \* outcome of verify_access_token(tok) called at this instant
    req,          \* a request to a protected endpoint
    pages         \* requests to the page endpoints of main.py (get_db sessions)

vars == <<settings, verify_sub, now, tok, issued, result, req, pages>>

\* -------------------------------------------------------- token encoding
NoPayload == [sub |-> MissingSub, exp |-> Absent, nbf |-> Absent]

\* HMAC over header and payload, idealised as collision free.
HMAC(key, alg, payload) == [key |-> key, alg |-> alg, payload |-> payload]

\* calendar.timegm(dt.utctimetuple()): a datetime truncated to whole seconds
timegm(ticks) == ticks \div TicksPerSec

\* jwt.encode: datetime `exp` becomes a NumericDate, then header.payload.sig
jwt_encode(to_encode, key, alg) ==
    LET payload == [to_encode EXCEPT !.exp = timegm(to_encode.exp)]
    IN  [kind |-> "jws", alg |-> alg, payload |-> payload,
         sig |-> HMAC(key, alg, payload)]

\* `if expires_delta:` -- None and timedelta(0) are both falsy
Truthy(expires_delta) == expires_delta.given /\ expires_delta.ticks # 0

DefaultDelta == access_token_expire_minutes * 60 * TicksPerSec

\* slip: the delta is computed but never added to the clock
create_access_token_noadd(data, expires_delta) ==
    LET expire == now
        to_encode == [data EXCEPT !.exp = expire]
    IN  jwt_encode(to_encode, settings.secret_key, settings.algorithm)

create_access_token(data, expires_delta) ==
    LET expire == IF Truthy(expires_delta)
                  THEN now + expires_delta.ticks
                  ELSE now + DefaultDelta
        to_encode == [data EXCEPT !.exp = expire]
    IN  jwt_encode(to_encode, settings.secret_key, settings.algorithm)

\* -------------------------------------------------------- token decoding
\* a string that is not three base64url segments, such as `garbage`
Garbage == [kind |-> "garbage", alg |-> "", payload |-> NoPayload,
            sig |-> HMAC("", "", NoPayload)]

\* slips: strict comparison; comparison turned around
IsExpired_strict(exp, t) == exp * TicksPerSec < t
IsExpired_reversed(exp, t) == exp * TicksPerSec >= t

\* exp <= now - leeway, leeway = 0; now is a float of seconds
IsExpired(exp, t) == exp * TicksPerSec <= t

\* nbf > now + leeway
IsImmature(nbf, t) == nbf * TicksPerSec > t

\* slip: exp left out of the required claims
RequiredClaims_sub_only == {"sub"}

\* options={"require": ["exp", "sub"]}
RequiredClaims == {"exp", "sub"}

\* payload.get(claim) is None
ClaimIsNone(payload, claim) ==
    IF claim = "sub" THEN payload.sub.type \in {"absent", "none"}
    ELSE IF claim = "exp" THEN payload.exp = Absent
    ELSE payload.nbf = Absent

\* slip: the signature is compared without the key
SignatureOk_nokey(token, key) == token.sig.payload = token.payload

SignatureOk(token, key) == token.sig = HMAC(key, token.alg, token.payload)

\* jwt.decode(token, key, algorithms=[...], options={"require": [...]}) at
\* time t: the error it raises ("none" when it returns) and the payload.
jwt_decode(token, key, algorithms, require, t) ==
    LET p == token.payload
        err ==
          IF token.kind # "jws" THEN "DecodeError"
          ELSE IF token.alg \notin algorithms THEN "InvalidAlgorithmError"
          ELSE IF ~SignatureOk(token, key) THEN "InvalidSignatureError"
          ELSE IF \E c \in require : ClaimIsNone(p, c) THEN "MissingRequiredClaimError"
          ELSE IF p.nbf # Absent /\ IsImmature(p.nbf, t) THEN "ImmatureSignatureError"
          ELSE IF p.exp # Absent /\ IsExpired(p.exp, t) THEN "ExpiredSignatureError"
          ELSE IF verify_sub /\ p.sub.type \notin {"absent", "str"} THEN "InvalidSubjectError"
          ELSE "none"
    IN  [err |-> err, payload |-> p]

\* slip: only the expiry error is caught
InvalidTokenError_expired_only == {"ExpiredSignatureError"}

\* the subclasses of jwt.InvalidTokenError
InvalidTokenError ==
    {"DecodeError", "InvalidAlgorithmError", "InvalidSignatureError",
     "MissingRequiredClaimError", "ImmatureSignatureError",
     "ExpiredSignatureError", "InvalidSubjectError"}

\* payload.get("sub")
GetSub(payload) == IF payload.sub.type = "absent" THEN None ELSE payload.sub

\* What a call returns or that it raised.
Returned(v) == [raised |-> FALSE, value |-> v]
Raised == [raised |-> TRUE, value |-> None]

verify_access_token(token) ==
    LET r == jwt_decode(token, settings.secret_key, {settings.algorithm},
                        RequiredClaims, now)
    IN  IF r.err = "none" THEN Returned(GetSub(r.payload))
        ELSE IF r.err \in InvalidTokenError THEN Returned(None)
        ELSE Raised

\* ------------------------------------------------------------ the state
NoIssue == [live |-> FALSE, data |-> NoPayload,
            delta |-> NoDelta, at |-> 0, key |-> "", alg |-> ""]
NoResult == [done |-> FALSE, raised |-> FALSE, value |-> None]
NoHeader == [present |-> FALSE, scheme |-> "", param |-> Garbage]
IdleReq == [pc |-> "idle", header |-> NoHeader, token |-> Garbage,
            checked |-> FALSE, subject |-> None, ran |-> FALSE, status |-> 0]
NoPage == [pc |-> "idle", post_id |-> 0, session |-> "none", opened |-> 0,
           how |-> "", status |-> 0]

Init ==
    /\ settings \in [secret_key : Keys, algorithm : Algs]
    /\ verify_sub \in BOOLEAN
    /\ now = 0
    /\ tok = Garbage
    /\ issued = NoIssue
    /\ result = NoResult
    /\ req = IdleReq
    /\ pages = [i \in 1..MaxReq |-> NoPage]

\* ------------------------------------------------- token codec actions
\* the clock advances; what a verification returned belongs to the past
Tick ==
    /\ now < MaxNow
    /\ now' = now + 1
    /\ result' = NoResult
    /\ UNCHANGED <<settings, verify_sub, tok, issued, req, pages>>

\* create_access_token(data, expires_delta) is called and its token kept
Issue ==
    \E data \in DataSet, delta \in Deltas :
        /\ tok = Garbage
        /\ tok' = create_access_token(data, delta)
        /\ issued' = [live |-> TRUE, data |-> data, delta |-> delta, at |-> now,
                      key |-> settings.secret_key, alg |-> settings.algorithm]
        /\ result' = NoResult
        /\ UNCHANGED <<settings, verify_sub, now, req, pages>>

\* a token that some other party encoded, under any key and algorithm
ForeignPayloads ==
    [sub : SubValues, exp : {Absent} \cup (1..MaxDelta), nbf : {Absent, 2}]

Forge ==
    \E p \in ForeignPayloads, k \in Keys, a \in Algs :
        /\ tok = Garbage
        /\ tok' = [kind |-> "jws", alg |-> a, payload |-> p,
                   sig |-> HMAC(k, a, p)]
        /\ issued' = NoIssue
        /\ result' = NoResult
        /\ UNCHANGED <<settings, verify_sub, now, req, pages>>

\* the payload of the token is rewritten, the signature kept
Tamper ==
    /\ tok.kind = "jws"
    /\ \E s \in {Str("42"), Str("1")} :
          /\ s # tok.payload.sub
          /\ tok' = [tok EXCEPT !.payload.sub = s]
    /\ issued' = NoIssue
    /\ result' = NoResult
    /\ UNCHANGED <<settings, verify_sub, now, req, pages>>

\* the process is restarted with another .env; tokens in the wild survive
Restart ==
    /\ \E s \in [secret_key : Keys, algorithm : Algs] :
          /\ s # settings
          /\ settings' = s
    /\ result' = NoResult
    /\ UNCHANGED <<verify_sub, now, tok, issued, req, pages>>

\* the token is forgotten; the next one presented is again any string
Drop ==
    /\ tok # Garbage
    /\ tok' = Garbage
    /\ issued' = NoIssue
    /\ result' = NoResult
    /\ UNCHANGED <<settings, verify_sub, now, req, pages>>

\* verify_access_token(tok) is called
Verify ==
    /\ LET r == verify_access_token(tok)
       IN  result' = [done |-> TRUE, raised |-> r.raised, value |-> r.value]
    /\ UNCHANGED <<settings, verify_sub, now, tok, issued, req, pages>>

Next == Tick \/ Issue \/ Forge \/ Tamper \/ Restart \/ Drop \/ Verify

Spec == Init /\ [][Next]_vars

\* ------------------------------------- bearer extraction and route guard
\* str.lower() on the authorization schemes that occur
Lower(scheme) == IF scheme = "Bearer" THEN "bearer" ELSE scheme

\* slip: auto_error switched off, a missing header yields no token
oauth2_scheme_no_auto_error(header) ==
    IF ~header.present \/ Lower(header.scheme) # "bearer"
    THEN [raised |-> FALSE, value |-> Garbage]
    ELSE [raised |-> FALSE, value |-> header.param]

\* oauth2_scheme = OAuth2PasswordBearer(tokenUrl=...), auto_error left on:
\* raises 401 unless there is an Authorization header whose scheme is
\* bearer, else returns the parameter verbatim
oauth2_scheme(header) ==
    IF ~header.present \/ Lower(header.scheme) # "bearer"
    THEN [raised |-> TRUE, value |-> Garbage]
    ELSE [raised |-> FALSE, value |-> header.param]

\* the route guard of the protected endpoints: verify, 401 on null
get_current_user(token) ==
    LET r == verify_access_token(token)
    IN  IF r.raised THEN [status |-> 500, subject |-> None]
        ELSE IF r.value = None THEN [status |-> 401, subject |-> None]
        ELSE [status |-> 0, subject |-> r.value]

\* the tokens a client may put behind `Bearer `
GuardData == [sub : {MissingSub, Str("42")}, exp : {Absent}, nbf : {Absent}]
ClientTokens ==
    {Garbage}
    \cup {create_access_token(d, dl) : d \in GuardData, dl \in Deltas}
    \cup {[kind |-> "jws", alg |-> settings.algorithm, payload |-> p,
           sig |-> HMAC(k, settings.algorithm, p)] :
            p \in [sub : {Str("42")}, exp : {MaxDelta}, nbf : {Absent}],
            k \in Keys}

Headers ==
    {NoHeader}
    \cup [present : {TRUE}, scheme : {"Bearer", "bearer", "Basic"},
          param : ClientTokens]

\* a request to a protected endpoint arrives
ReqReceive ==
    /\ req.pc = "idle"
    /\ \E h \in Headers : req' = [IdleReq EXCEPT !.pc = "extract", !.header = h]
    /\ UNCHANGED <<settings, verify_sub, now, tok, issued, result, pages>>

\* the oauth2_scheme dependency runs
ReqExtract ==
    /\ req.pc = "extract"
    /\ LET r == oauth2_scheme(req.header)
       IN  req' = IF r.raised
                  THEN [req EXCEPT !.pc = "done", !.status = 401]
                  ELSE [req EXCEPT !.pc = "guard", !.token = r.value]
    /\ UNCHANGED <<settings, verify_sub, now, tok, issued, result, pages>>

\* the guard resolves the token to a subject
ReqGuard ==
    /\ req.pc = "guard"
    /\ LET g == get_current_user(req.token)
       IN  req' = IF g.status # 0
                  THEN [req EXCEPT !.pc = "done", !.checked = TRUE,
                                   !.status = g.status]
                  ELSE [req EXCEPT !.pc = "handler", !.checked = TRUE,
                                   !.subject = g.subject]
    /\ UNCHANGED <<settings, verify_sub, now, tok, issued, result, pages>>

\* the body of the protected handler runs
ReqHandler ==
    /\ req.pc = "handler"
    /\ req' = [req EXCEPT !.pc = "done", !.ran = TRUE, !.status = 200]
    /\ UNCHANGED <<settings, verify_sub, now, tok, issued, result, pages>>

\* the response is sent
ReqRespond ==
    /\ req.pc = "done"
    /\ req' = IdleReq
    /\ UNCHANGED <<settings, verify_sub, now, tok, issued, result, pages>>

NextGuard == Tick \/ ReqReceive \/ ReqExtract \/ ReqGuard \/ ReqHandler \/ ReqRespond

GuardSpec == Init /\ [][NextGuard]_vars

\* --------------------------------------------- request-scoped sessions
\* ids of the posts in the database, and the ids a client may ask for
Posts == {1}
PostIds == {1, 2}

\* `async with AsyncSessionLocal() as session:` entered
get_db_enter(session) == "open"

\* slip: close() after the yield, reached on a normal return only
get_db_exit_no_context(session, how) ==
    IF how = "return" THEN "closed" ELSE session

\* the `async with` block left, however the handler ended
get_db_exit(session, how) == "closed"

\* GET /posts/{post_id} arrives
PageReceive(i) ==
    /\ pages[i].pc = "idle"
    /\ \E id \in PostIds :
          pages' = [pages EXCEPT ![i] = [NoPage EXCEPT !.pc = "deps", !.post_id = id]]
    /\ UNCHANGED <<settings, verify_sub, now, tok, issued, result, req>>

\* Depends(get_db) is resolved
PageGetDb(i) ==
    /\ pages[i].pc = "deps"
    /\ pages' = [pages EXCEPT ![i].pc = "handler",
                              ![i].session = get_db_enter(pages[i].session),
                              ![i].opened = pages[i].opened + 1]
    /\ UNCHANGED <<settings, verify_sub, now, tok, issued, result, req>>

\* post_page: the query fails, or the post is rendered, or 404 is raised
post_page(i) ==
    /\ pages[i].pc = "handler"
    /\ \E db_error \in BOOLEAN :
          pages' = [pages EXCEPT
              ![i].pc = "exit",
              ![i].how = IF db_error THEN "exception"
                         ELSE IF pages[i].post_id \in Posts THEN "return"
                         ELSE "http_exception",
              ![i].status = IF db_error THEN 500
                            ELSE IF pages[i].post_id \in Posts THEN 200
                            ELSE 404]
    /\ UNCHANGED <<settings, verify_sub, now, tok, issued, result, req>>

\* the dependency's exit code runs
PageGetDbExit(i) ==
    /\ pages[i].pc = "exit"
    /\ pages' = [pages EXCEPT ![i].pc = "done",
                              ![i].session = get_db_exit(pages[i].session, pages[i].how)]
    /\ UNCHANGED <<settings, verify_sub, now, tok, issued, result, req>>

\* the request is over
PageEnd(i) ==
    /\ pages[i].pc = "done"
    /\ pages' = [pages EXCEPT ![i] = NoPage]
    /\ UNCHANGED <<settings, verify_sub, now, tok, issued, result, req>>

NextPage ==
    \E i \in 1..MaxReq :
        PageReceive(i) \/ PageGetDb(i) \/ post_page(i) \/ PageGetDbExit(i) \/ PageEnd(i)

PageSpec == Init /\ [][NextPage]_vars

\* ------------------------------------------------------------- claims
\* tok came out of create_access_token at this very instant, under the
\* configuration the process still has
JustIssued ==
    /\ issued.live
    /\ issued.at = now
    /\ issued.key = settings.secret_key
    /\ issued.alg = settings.algorithm

Accepted == result.done /\ ~result.raised /\ result.value # None

C2_NonPositiveTtlExpired ==
    (/\ result.done
     /\ JustIssued
     /\ issued.delta.given
     /\ issued.delta.ticks <= 0)
    => (~result.raised /\ result.value = None)

\* C3 (as stated): an accepted token has a non-empty sub and an exp strictly
\* later than the time of the check.
C3_AcceptedNonEmptySub ==
    Accepted =>
        /\ tok.payload.sub.type \notin {"absent", "none"}
        /\ tok.payload.sub.val # ""
        /\ tok.payload.exp # Absent
        /\ tok.payload.exp * TicksPerSec > now

\* C3 (amended): an accepted token has a sub claim that is present and not
\* null (it may be the empty string) and an exp strictly later than the time
\* of the check.
C3_AcceptedHasSubAndFutureExp ==
    Accepted =>
        /\ tok.payload.sub.type \notin {"absent", "none"}
        /\ result.value = tok.payload.sub
        /\ tok.payload.exp # Absent
        /\ tok.payload.exp * TicksPerSec > now

C3_Witness ==
    /\ Accepted
    /\ tok.payload.sub = Str("")
    /\ tok.payload.exp * TicksPerSec = now + 1

\* C4: a token whose claims lack sub never yields a subject, whatever the
\* time, the ttl and the configuration; a correctly signed token that lacks
\* exp is rejected as well.
C4_MissingClaimRejected ==
    (/\ result.done
     /\ tok.kind = "jws"
     /\ \/ tok.payload.sub.type = "absent"
        \/ tok.payload.exp = Absent)
    => (~result.raised /\ result.value = None)

C4_Witness ==
    /\ result.done
    /\ tok.kind = "jws"
    /\ tok.alg = settings.algorithm
    /\ SignatureOk(tok, settings.secret_key)
    /\ tok.payload.sub = Str("42")
    /\ tok.payload.exp = Absent
    /\ result.value = None

C4_WitnessNoSub ==
    /\ result.done
    /\ JustIssued
    /\ issued.data.sub = MissingSub
    /\ issued.delta = Delta(MaxDelta)
    /\ result.value = None

C5_WitnessBadSignature ==
    /\ result.done
    /\ tok.kind = "jws"
    /\ tok.alg = settings.algorithm
    /\ ~SignatureOk(tok, settings.secret_key)
    /\ result.value = None

\* C6: a token issued under one secret key and verified under another
\* verifies to null; a token is accepted only when the verifying key and
\* algorithm are the ones it was signed with.
C6_OtherKeyRejected ==
    /\ (result.done /\ issued.live /\ issued.key # settings.secret_key)
          => (~result.raised /\ result.value = None)
    /\ Accepted => /\ tok.sig.key = settings.secret_key
                   /\ tok.sig.alg = settings.algorithm
                   /\ tok.alg = settings.algorithm
                   /\ (issued.live => /\ issued.key = settings.secret_key
                                      /\ issued.alg = settings.algorithm)

C6_Witness ==
    /\ result.done
    /\ issued.live
    /\ issued.key # settings.secret_key
    /\ issued.alg = settings.algorithm
    /\ issued.data.sub = Str("42")
    /\ issued.data.nbf = Absent
    /\ ~Truthy(issued.delta)
    /\ result.value = None

C8_ExpIsNowPlusTtl ==
    issued.live =>
        tok.payload.exp =
            timegm(issued.at + (IF issued.delta.given THEN issued.delta.ticks
                                ELSE DefaultDelta))

\* C9: the body of a protected handler runs only for a request with a
\* Bearer header whose token verified to a non-null subject; a request with
\* no or a malformed header is refused before any token check, and one whose
\* token verifies to null is refused, the handler body not running.
C9_HandlerOnlyWhenAuthenticated ==
    LET bad == ~req.header.present \/ Lower(req.header.scheme) # "bearer"
    IN  /\ req.ran => (~bad /\ req.checked /\ req.subject # None)
        /\ (bad /\ req.pc \notin {"idle", "extract"})
              => (req.pc = "done" /\ req.status = 401 /\ ~req.checked /\ ~req.ran)
        /\ (req.checked /\ req.subject = None)
              => (req.pc = "done" /\ req.status = 401 /\ ~req.ran)

C9_Witness ==
    /\ req.pc = "done"
    /\ req.header.present
    /\ req.header.scheme = "Bearer"
    /\ req.header.param = Garbage
    /\ req.checked
    /\ req.status = 401

C9_WitnessNoHeader ==
    /\ req.pc = "done"
    /\ req.header = NoHeader
    /\ req.status = 401

C9_WitnessRan ==
    /\ req.ran
    /\ req.subject = Str("42")

\* C10: the session get_db makes is made once per request and is closed
\* when the request has ended, on every exit path of the handler; no
\* session is open outside a running request.
C10_SessionReleased ==
    \A i \in 1..MaxReq :
        /\ pages[i].pc = "done" => (pages[i].session = "closed" /\ pages[i].opened = 1)
        /\ pages[i].session = "open" => pages[i].pc \in {"handler", "exit"}

C10_Witness ==
    \E i \in 1..MaxReq :
        /\ pages[i].pc = "done"
        /\ pages[i].how = "http_exception"
        /\ pages[i].status = 404
        /\ pages[i].session = "closed"

C10_WitnessException ==
    \E i \in 1..MaxReq :
        /\ pages[i].pc = "done"
        /\ pages[i].how = "exception"
        /\ pages[i].session = "closed"

====
